---- MODULE Spec2Model ----
(***************************************************************************)
(* Model of postsass' src/index.ts: the cold build (compile), the          *)
(* dependency table (relationships, relationTracker) and watch mode        *)
(* (enableWatchMode, changeHandler).                                       *)
(*                                                                         *)
(* The Transformer (compilerPipe / compileFile), the error collector, klaw *)
(* and chokidar are collaborators outside src/index.ts: a compile either   *)
(* fails or succeeds with some included-file list that starts with the     *)
(* entry file itself.                                                      *)
(***************************************************************************)
EXTENDS Integers, Sequences, FiniteSets, TLC

\* ---- bounds ------------------------------------------------------------
\* change-handler invocations running at the same time
MaxActive == 2
\* length of the included-file lists tried against relationTracker
MaxLen == 2

\* ---- the file tree -----------------------------------------------------
\* one EntryConfig per configured root (params.dir)
Roots == {"r1", "r2"}
\* entry units (what filterFiles lets through) and include-only partials
Units == {"a", "b"}
Partials == {"p"}
Files == Units \cup Partials
\* the root whose source directory holds the file: both units live under r1
\* and import the partial kept under r2
RootOf(f) == IF f \in {"a", "b"} THEN "r1" ELSE "r2"
UnitsOf(r) == {u \in Units : RootOf(u) = r}

\* the partials in the order sass lists them in includedFiles
PartialOrder == <<"p">>
RECURSIVE Keep(_, _)
Keep(s, S) ==
  IF s = <<>> THEN <<>>
  ELSE IF Head(s) \in S THEN <<Head(s)>> \o Keep(Tail(s), S) ELSE Keep(Tail(s), S)
SetToSeq(S) == Keep(PartialOrder, S)

\* stats.includedFiles of a successful compile of u: the entry file first,
\* then some partials
IncludedLists(u) == {<<u>> \o SetToSeq(P) : P \in SUBSET Partials}

Range(s) == {s[i] : i \in 1..Len(s)}

VARIABLES
  params,         \* [watch, debug]: the flags of Params the model reads
  pc,             \* where compile() is
  exitCode,       \* process.exitCode (0 while unset)
  stream,         \* per root: the klaw pipeline, flowing / ended / error
  unit,           \* per unit: todo / ok / failed in the cold build
  errors,         \* the error collector: units whose cold compile failed
  reported,       \* units whose "from => to" line dataListener printed
  pending,        \* dataListener calls suspended at await writeFile
  relationships,  \* the dependency table: file -> list of entry units
  snapshot,       \* <<table>> once relationships.json is written, else <<>>
  watcher,        \* per root: none / open / closing / closed
  handlers,       \* the running change-handler invocations, in arrival order
  included,       \* per unit: includedFiles of its latest successful compile
  lastBy,         \* per unit: which phase did that compile (none/cold/watch)
  recorded,       \* the arguments of the relationTracker calls, in call order
  everIncluded,   \* files some successful compile has reported as included
  lastEvent       \* the latest "File changed" / "has been removed" line logged

vars == <<params, pc, exitCode, stream, unit, errors, reported, pending,
          relationships, snapshot, watcher, handlers, included, lastBy,
          recorded, everIncluded, lastEvent>>

\* ---- the dependency table ----------------------------------------------
\* Array.prototype.indexOf, 0-based, -1 when absent
IndexOf(s, x) ==
  IF \E i \in 1..Len(s) : s[i] = x
  THEN (CHOOSE i \in 1..Len(s) : s[i] = x /\ \A j \in 1..(i - 1) : s[j] # x) - 1
  ELSE -1

\* TrackFile without the indexOf test of line 161
TrackFileNoTest(rel, f, from) ==
  IF f \notin DOMAIN rel
  THEN [g \in DOMAIN rel \cup {f} |-> IF g = f THEN <<from>> ELSE rel[g]]
  ELSE [rel EXCEPT ![f] = Append(@, from)]

\* TrackFile with unshift in place of push at line 162
TrackFileUnshift(rel, f, from) ==
  IF f \notin DOMAIN rel
  THEN [g \in DOMAIN rel \cup {f} |-> IF g = f THEN <<from>> ELSE rel[g]]
  ELSE IF IndexOf(rel[f], from) = -1
       THEN [rel EXCEPT ![f] = <<from>> \o @]
       ELSE rel

\* TrackFile assigning a fresh list where line 162 pushes
TrackFileOverwrite(rel, f, from) ==
  IF f \notin DOMAIN rel
  THEN [g \in DOMAIN rel \cup {f} |-> IF g = f THEN <<from>> ELSE rel[g]]
  ELSE IF IndexOf(rel[f], from) = -1
       THEN [rel EXCEPT ![f] = <<from>>]
       ELSE rel

\* the body of the forEach of relationTracker for one included file f
TrackFile(rel, f, from) ==
  IF f \notin DOMAIN rel
  THEN [g \in DOMAIN rel \cup {f} |-> IF g = f THEN <<from>> ELSE rel[g]]
  ELSE IF IndexOf(rel[f], from) = -1
       THEN [rel EXCEPT ![f] = Append(@, from)]
       ELSE rel

RECURSIVE TrackFiles(_, _, _)
TrackFiles(rel, fs, from) ==
  IF fs = <<>> THEN rel
  ELSE TrackFiles(TrackFile(rel, Head(fs), from), Tail(fs), from)

\* relationTracker(d) for d = [from, includedFiles]
relationTracker(rel, d) == TrackFiles(rel, d.includedFiles, d.from)

RECURSIVE Flatten(_, _)
Flatten(rel, keys) ==
  IF keys = {} THEN <<>>
  ELSE LET k == CHOOSE x \in keys : TRUE
       IN  rel[k] \o Flatten(rel, keys \ {k})

\* dependentsOf looping over every list of the table, whatever the path
dependentsOfAnyPath(rel, path) == Flatten(rel, DOMAIN rel)

\* dependentsOf falling back to every unit of the table for an unknown path
dependentsOfElseAll(rel, path) ==
  IF path \in DOMAIN rel THEN rel[path] ELSE Flatten(rel, DOMAIN rel \cap Units)

\* changeHandler's loop range: Object.values(relationships[path]) when path
\* is a key, nothing otherwise
dependentsOf(rel, path) == IF path \in DOMAIN rel THEN rel[path] ELSE <<>>

Tracking == params.watch \/ params.debug

\* ---- initial state -----------------------------------------------------
Init ==
  /\ params \in [watch : BOOLEAN, debug : BOOLEAN]
  /\ pc = "build"
  /\ exitCode = 0
  /\ stream = [r \in Roots |-> "flowing"]
  /\ unit = [u \in Units |-> "todo"]
  /\ errors = <<>>
  /\ reported = {}
  /\ pending = {}
  /\ relationships = [f \in {} |-> <<>>]
  /\ snapshot = <<>>
  /\ watcher = [r \in Roots |-> "none"]
  /\ handlers = <<>>
  /\ included = [u \in Units |-> <<>>]
  /\ lastBy = [u \in Units |-> "none"]
  /\ recorded = <<>>
  /\ everIncluded = {}
  /\ lastEvent = [kind |-> "none", path |-> "none"]

\* ---- cold build: compile(), lines 73-125 -------------------------------
\* dataListener with line 147 testing params.watch alone
dataListenerWatchOnly(d) ==
  /\ reported' = reported \cup {d.from}
  /\ UNCHANGED pending
  /\ IF params.watch
     THEN /\ relationships' = relationTracker(relationships, d)
          /\ recorded' = Append(recorded, d)
     ELSE UNCHANGED <<relationships, recorded>>

\* dataListener(params, entry)(d): the synchronous part, up to the first
\* await.  With debug the call suspends at await writeFile and the table is
\* updated only when it resumes (ListenerResume).  writeFile is taken to
\* succeed.
dataListener(d) ==
  /\ reported' = reported \cup {d.from}
  /\ IF params.debug
     THEN /\ pending' = pending \cup {d}
          /\ UNCHANGED <<relationships, recorded>>
     ELSE /\ UNCHANGED pending
          /\ IF Tracking
             THEN /\ relationships' = relationTracker(relationships, d)
                  /\ recorded' = Append(recorded, d)
             ELSE UNCHANGED <<relationships, recorded>>

\* compilerPipe hands the next unit of root r to the Transformer and it
\* succeeds: a "data" event reaches dataListener
CompileOk(r, u, S) ==
  /\ pc = "build"
  /\ stream[r] = "flowing"
  /\ RootOf(u) = r
  /\ unit[u] = "todo"
  /\ unit' = [unit EXCEPT ![u] = "ok"]
  /\ included' = [included EXCEPT ![u] = S]
  /\ lastBy' = [lastBy EXCEPT ![u] = "cold"]
  /\ everIncluded' = everIncluded \cup Range(S)
  /\ dataListener([from |-> u, includedFiles |-> S])
  /\ UNCHANGED <<params, pc, exitCode, stream, errors, snapshot, watcher, handlers, lastEvent>>

\* ... or the Transformer fails: the error goes to the collector, no "data"
CompileFail(r, u) ==
  /\ pc = "build"
  /\ stream[r] = "flowing"
  /\ RootOf(u) = r
  /\ unit[u] = "todo"
  /\ unit' = [unit EXCEPT ![u] = "failed"]
  /\ errors' = Append(errors, u)
  /\ UNCHANGED <<params, pc, exitCode, stream, reported, pending, relationships,
                 snapshot, watcher, handlers, included, lastBy, recorded,
                 everIncluded, lastEvent>>

\* a suspended dataListener resumes after writeFile and runs relationTracker
\* (debug implies the test of line 147)
ListenerResume(d) ==
  /\ pc # "crashed"
  /\ d \in pending
  /\ pending' = pending \ {d}
  /\ IF Tracking
     THEN /\ relationships' = relationTracker(relationships, d)
          /\ recorded' = Append(recorded, d)
     ELSE UNCHANGED <<relationships, recorded>>
  /\ UNCHANGED <<params, pc, exitCode, stream, unit, errors, reported, snapshot,
                 watcher, handlers, included, lastBy,
                 everIncluded, lastEvent>>

\* the pipeline of root r emits "end": the root's promise resolves
StreamEnd(r) ==
  /\ pc = "build"
  /\ stream[r] = "flowing"
  /\ \A u \in UnitsOf(r) : unit[u] # "todo"
  /\ stream' = [stream EXCEPT ![r] = "ended"]
  /\ UNCHANGED <<params, pc, exitCode, unit, errors, reported, pending,
                 relationships, snapshot, watcher, handlers, included, lastBy, recorded,
                 everIncluded, lastEvent>>

\* klaw fails to enumerate root r.  The pipeline has no "error" listener and
\* the promise's reject is never called (lines 75-91): the stream never
\* emits "end".  Either the unhandled "error" event ends the process, or the
\* root's promise stays pending for ever.
EnumFail(r) ==
  /\ pc = "build"
  /\ stream[r] = "flowing"
  /\ stream' = [stream EXCEPT ![r] = "error"]
  /\ \/ /\ pc' = "crashed"
        /\ exitCode' = 1
     \/ UNCHANGED <<pc, exitCode>>
  /\ UNCHANGED <<params, unit, errors, reported, pending, relationships,
                 snapshot, watcher, handlers, included, lastBy, recorded,
                 everIncluded, lastEvent>>

\* BuildResolved without the hasErrors return of lines 105-110
BuildResolvedIgnoringErrors ==
  /\ pc = "build"
  /\ \A r \in Roots : stream[r] = "ended"
  /\ IF params.debug
     THEN /\ pc' = "writeDebug"
          /\ snapshot' = <<relationships>>
     ELSE /\ pc' = IF params.watch THEN "import" ELSE "done"
          /\ UNCHANGED snapshot
  /\ UNCHANGED <<params, exitCode, stream, unit, errors, reported, pending,
                 relationships, watcher, handlers, included, lastBy, recorded,
                 everIncluded, lastEvent>>

\* Promise.all(cbs) resolves; lines 104-124 up to the next await.  No
\* executor ever calls reject, so Promise.all(cbs) cannot reject and the catch
\* branch of lines 97-102 (pc "fatal", exit code 1) has no action.
BuildResolved ==
  /\ pc = "build"
  /\ \A r \in Roots : stream[r] = "ended"
  /\ IF errors # <<>>
     THEN /\ pc' = "done"
          /\ exitCode' = 2
          /\ UNCHANGED snapshot
     ELSE IF params.debug
     THEN /\ pc' = "writeDebug"
          /\ snapshot' = <<relationships>>
          /\ UNCHANGED exitCode
     ELSE /\ pc' = IF params.watch THEN "import" ELSE "done"
          /\ UNCHANGED <<exitCode, snapshot>>
  /\ UNCHANGED <<params, stream, unit, errors, reported, pending, relationships,
                 watcher, handlers, included, lastBy, recorded,
                 everIncluded, lastEvent>>

\* writeFile of relationships.json resolves (line 114)
DebugWritten ==
  /\ pc = "writeDebug"
  /\ pc' = IF params.watch THEN "import" ELSE "done"
  /\ UNCHANGED <<params, exitCode, stream, unit, errors, reported, pending,
                 relationships, snapshot, watcher, handlers, included, lastBy, recorded,
                 everIncluded, lastEvent>>

\* ---- watch mode: enableWatchMode, lines 167-198 ------------------------
\* import("chokidar") resolves: one watcher and one SIGINT listener per root
StartWatch ==
  /\ pc = "import"
  /\ pc' = "watch"
  /\ watcher' = [r \in Roots |-> "open"]
  /\ UNCHANGED <<params, exitCode, stream, unit, errors, reported, pending,
                 relationships, snapshot, handlers, included, lastBy, recorded,
                 everIncluded, lastEvent>>

\* the unit whose compileFile call handler record h is awaiting
InFlight(h) == h.list[Len(h.invoked)]

\* changeHandler calling compileFile for every dependent at once, without
\* awaiting one before the next
changeHandlerAllAtOnce(r, path) ==
  LET list == dependentsOf(relationships, path)
  IN  [root |-> r, path |-> path,
       deps |-> IF path \in DOMAIN relationships THEN relationships[path] ELSE <<>>,
       list |-> list,
       invoked |-> list,
       settled |-> 0,
       errs |-> <<>>,
       state |-> IF list = <<>> THEN "done" ELSE "compiling"]

\* changeHandler(entry)(path), lines 203-208: up to the first await.  The
\* loop runs over Object.values(...), a copy of the list taken here; deps
\* remembers the table's list for this path at this moment, invoked the
\* compileFile calls made so far and settled how many of them have settled.
changeHandler(r, path) ==
  LET list == dependentsOf(relationships, path)
  IN  [root |-> r, path |-> path,
       deps |-> IF path \in DOMAIN relationships THEN relationships[path] ELSE <<>>,
       list |-> list,
       invoked |-> IF list = <<>> THEN <<>> ELSE <<list[1]>>,
       settled |-> 0,
       errs |-> <<>>,
       state |-> IF list = <<>> THEN "done" ELSE "compiling"]

\* Advance without the try/catch of lines 207-214: a failure ends the loop
AdvanceNoCatch(h, failed) ==
  IF failed THEN [h EXCEPT !.settled = @ + 1, !.state = "done"]
  ELSE IF Len(h.invoked) < Len(h.list)
       THEN [h EXCEPT !.settled = @ + 1,
                      !.invoked = Append(@, h.list[Len(h.invoked) + 1])]
       ELSE [h EXCEPT !.settled = @ + 1, !.state = "done"]

\* lines 206-215 after an awaited compileFile settles: the failure is caught
\* and logged, then the loop goes on to the next dependent or ends
Advance(h, failed) ==
  LET e == IF failed THEN Append(h.errs, InFlight(h)) ELSE h.errs
  IN  IF Len(h.invoked) < Len(h.list)
      THEN [h EXCEPT !.errs = e, !.settled = @ + 1,
                     !.invoked = Append(@, h.list[Len(h.invoked) + 1])]
      ELSE [h EXCEPT !.errs = e, !.settled = @ + 1, !.state = "done"]

\* s without its i-th element
RemoveAt(s, i) == SubSeq(s, 1, i - 1) \o SubSeq(s, i + 1, Len(s))

\* the handler invocations still running once invocation i has become h: an
\* invocation whose loop has ended returns and is gone
Settle(i, h) ==
  IF h.state = "done" THEN RemoveAt(handlers, i) ELSE [handlers EXCEPT ![i] = h]

\* chokidar emits "change" for a file under root r (line 187); the emitter
\* does not wait for the promise an earlier call of the handler returned
ChangeEvent(r, path) ==
  /\ watcher[r] = "open"
  /\ RootOf(path) = r
  /\ changeHandler(r, path).state = "done" \/ Len(handlers) < MaxActive
  /\ lastEvent' = [kind |-> "change", path |-> path]
  /\ handlers' = IF changeHandler(r, path).state = "done" THEN handlers
                 ELSE Append(handlers, changeHandler(r, path))
  /\ UNCHANGED <<params, pc, exitCode, stream, unit, errors, reported, pending,
                 relationships, snapshot, watcher, included, lastBy, recorded,
                 everIncluded>>

\* Unlink with the change handler registered for "unlink" as well
UnlinkRecompiles(r, path) ==
  /\ watcher[r] = "open"
  /\ RootOf(path) = r
  /\ changeHandler(r, path).state = "done" \/ Len(handlers) < MaxActive
  /\ lastEvent' = [kind |-> "unlink", path |-> path]
  /\ handlers' = IF changeHandler(r, path).state = "done" THEN handlers
                 ELSE Append(handlers, changeHandler(r, path))
  /\ UNCHANGED <<params, pc, exitCode, stream, unit, errors, reported, pending,
                 relationships, snapshot, watcher, included, lastBy, recorded,
                 everIncluded>>

\* chokidar emits "unlink" for a file under root r: the listener of line 185
\* logs the removal and does nothing else
Unlink(r, path) ==
  /\ watcher[r] = "open"
  /\ RootOf(path) = r
  /\ lastEvent' = [kind |-> "unlink", path |-> path]
  /\ UNCHANGED <<params, pc, exitCode, stream, unit, errors, reported, pending,
                 relationships, snapshot, watcher, handlers, included, lastBy,
                 recorded, everIncluded>>

\* the compileFile call invocation i awaits resolves, its included files being
\* the entry file and the partials P
RecompileOk(i, P) ==
  /\ included' = [included EXCEPT ![InFlight(handlers[i])] =
                                    <<InFlight(handlers[i])>> \o SetToSeq(P)]
  /\ lastBy' = [lastBy EXCEPT ![InFlight(handlers[i])] = "watch"]
  /\ everIncluded' = everIncluded \cup {InFlight(handlers[i])} \cup P
  /\ handlers' = Settle(i, Advance(handlers[i], FALSE))
  /\ UNCHANGED <<params, pc, exitCode, stream, unit, errors, reported, pending,
                 relationships, snapshot, watcher, recorded, lastEvent>>

\* ... or rejects
RecompileFail(i) ==
  /\ handlers' = Settle(i, Advance(handlers[i], TRUE))
  /\ UNCHANGED <<params, pc, exitCode, stream, unit, errors, reported, pending,
                 relationships, snapshot, watcher, included, lastBy, recorded,
                 everIncluded, lastEvent>>

\* Sigint with a single SIGINT listener, that of one root
SigintOneRoot ==
  /\ \E r \in Roots :
       /\ watcher[r] = "open"
       /\ watcher' = [watcher EXCEPT ![r] = "closing"]
  /\ UNCHANGED <<params, pc, exitCode, stream, unit, errors, reported, pending,
                 relationships, snapshot, handlers, included, lastBy, recorded,
                 everIncluded, lastEvent>>

\* SIGINT: every root's listener calls watcher.close() (lines 188-190)
Sigint ==
  /\ \E r \in Roots : watcher[r] = "open"
  /\ watcher' = [r \in Roots |-> IF watcher[r] = "open" THEN "closing" ELSE watcher[r]]
  /\ UNCHANGED <<params, pc, exitCode, stream, unit, errors, reported, pending,
                 relationships, snapshot, handlers, included, lastBy, recorded,
                 everIncluded, lastEvent>>

\* close() of root r resolves and the root's promise resolves (line 189)
WatcherClosed(r) ==
  /\ watcher[r] = "closing"
  /\ watcher' = [watcher EXCEPT ![r] = "closed"]
  /\ UNCHANGED <<params, pc, exitCode, stream, unit, errors, reported, pending,
                 relationships, snapshot, handlers, included, lastBy, recorded,
                 everIncluded, lastEvent>>

\* Promise.all(promises) resolves: "Graceful Shutdown" (lines 120-123)
Shutdown ==
  /\ pc = "watch"
  /\ \A r \in Roots : watcher[r] = "closed"
  /\ pc' = "shutdown"
  /\ exitCode' = 0
  /\ UNCHANGED <<params, stream, unit, errors, reported, pending, relationships,
                 snapshot, watcher, handlers, included, lastBy, recorded,
                 everIncluded, lastEvent>>

\* ---- the specification -------------------------------------------------
Next ==
  \/ \E r \in Roots, u \in Units : \E S \in IncludedLists(u) : CompileOk(r, u, S)
  \/ \E r \in Roots, u \in Units : CompileFail(r, u)
  \/ \E d \in pending : ListenerResume(d)
  \/ \E r \in Roots : StreamEnd(r)
  \/ \E r \in Roots : EnumFail(r)
  \/ BuildResolved
  \/ DebugWritten
  \/ StartWatch
  \/ \E r \in Roots, path \in Files : ChangeEvent(r, path)
  \/ \E r \in Roots, path \in Files : Unlink(r, path)
  \/ \E i \in 1..Len(handlers), P \in SUBSET Partials : RecompileOk(i, P)
  \/ \E i \in 1..Len(handlers) : RecompileFail(i)
  \/ Sigint
  \/ \E r \in Roots : WatcherClosed(r)
  \/ Shutdown

Spec == Init /\ [][Next]_vars

\* the same with what the event loop guarantees once SIGINT has been handled:
\* a close() that resolves runs its then-callback, and a settled Promise.all
\* resumes compile()
FairSpec ==
  /\ Spec
  /\ \A r \in Roots : WF_vars(WatcherClosed(r))
  /\ WF_vars(Shutdown)

\* ---- the dependency table on its own -----------------------------------
SeqsUpTo(S, n) == UNION {[1..k -> S] : k \in 0..n}
\* the included-file lists tried against relationTracker, repeats included
FileLists == SeqsUpTo(Files, MaxLen)

\* relationTracker called for any unit with any included-file list
Track(E, S) ==
  /\ relationships' = relationTracker(relationships, [from |-> E, includedFiles |-> S])
  /\ UNCHANGED <<params, pc, exitCode, stream, unit, errors, reported, pending,
                 snapshot, watcher, handlers, included, lastBy, recorded,
                 everIncluded, lastEvent>>

TrackerNext == \E E \in Units, S \in FileLists : Track(E, S)

\* every table relationTracker can build from the empty one, by any sequence
\* of calls: the tables compile() reaches are among them
TrackerSpec == Init /\ [][TrackerNext]_vars

\* ---- properties --------------------------------------------------------
Count(s, x) == Cardinality({i \in 1..Len(s) : s[i] = x})
NoDup(s) == \A i, j \in 1..Len(s) : s[i] = s[j] => i = j
Listed(u, f) == u \in Range(dependentsOf(relationships, f))
Suspended(u) == \E d \in pending : d.from = u
\* invocation i returns in this step
Returns(i) == handlers' = RemoveAt(handlers, i)

\* C1, as claimed: while the table is kept (watch or debug), every unit whose
\* latest successful compile reported included files S, and whose
\* dataListener call is not still suspended, is listed under every file of S.
C1_LatestIncludesListed ==
  Tracking =>
    \A u \in Units :
      (lastBy[u] # "none" /\ ~Suspended(u)) =>
        \A f \in Range(included[u]) : Listed(u, f)

\* C2: a change-handler invocation calls compileFile at most once for a unit
\* of the list the table held for the changed path when the event was
\* handled, never for another unit, and when it returns it has called it
\* exactly once for each unit of that list.
C2_OneCompilePerDependent ==
  [][\A i \in 1..Len(handlers) :
       LET h == handlers[i]
       IN  /\ \A u \in Units :
                Count(h.invoked, u) <= (IF u \in Range(h.deps) THEN 1 ELSE 0)
           /\ Returns(i) =>
                \A u \in Units :
                  Count(h.invoked, u) = (IF u \in Range(h.deps) THEN 1 ELSE 0)]_vars

\* an invocation with two dependents that has called compileFile for both
C2_Witness ==
  \E i \in 1..Len(handlers) :
    /\ Len(handlers[i].deps) = 2
    /\ handlers[i].invoked = handlers[i].deps

\* C3, as claimed: a unit whose latest successful compile was a watch-mode
\* recompile is listed under every file that recompile reported.
C3_RecompileRecordsIncludes ==
  \A u \in Units :
    lastBy[u] = "watch" => \A f \in Range(included[u]) : Listed(u, f)

\* C4, as claimed: of two running invocations for the same root, the later
\* one has not started its first recompile.
C4_OneInvocationPerRoot ==
  \A i, j \in 1..Len(handlers) :
    (i < j /\ handlers[i].root = handlers[j].root) => handlers[j].invoked = <<>>

\* C5, as claimed: a root's watcher is closed, and graceful shutdown is
\* reported, only when no recompile started by a change event is running.
C5_ClosedOnlyWhenIdle ==
  /\ \A r \in Roots :
       watcher[r] = "closed" => \A i \in 1..Len(handlers) : handlers[i].root # r
  /\ pc = "shutdown" => handlers = <<>>

\* C6: in every table relationTracker can build, no list holds a unit twice,
\* and for every unit E and included-file list S a second relationTracker
\* call with (E, S) leaves the table as the first call left it.
C6_IdempotentNoDuplicates ==
  /\ \A f \in DOMAIN relationships : NoDup(relationships[f])
  /\ \A E \in Units, S \in FileLists :
       LET d == [from |-> E, includedFiles |-> S]
           once == relationTracker(relationships, d)
       IN  relationTracker(once, d) = once

\* a table with a list of two units
C6_Witness == \E f \in DOMAIN relationships : Len(relationships[f]) = 2

\* the relationTracker calls, by position in call order, whose includedFiles
\* hold f
CallsWith(f) == {k \in 1..Len(recorded) : f \in Range(recorded[k].includedFiles)}

\* C7: when exactly two units A and B have been recorded with file f among
\* their included files, A before B, the table's list for f is <<A, B>>.
C7_FanOutInRecordingOrder ==
  \A f \in Files : \A i, j \in CallsWith(f) :
    (/\ i < j
     /\ recorded[i].from # recorded[j].from
     /\ \A k \in CallsWith(f) : recorded[k].from \in {recorded[i].from, recorded[j].from})
    => dependentsOf(relationships, f) = <<recorded[i].from, recorded[j].from>>

\* both units include the partial and b was recorded before a
C7_Witness ==
  /\ Len(recorded) = 2
  /\ recorded[1].from = "b"
  /\ recorded[2].from = "a"
  /\ {1, 2} \subseteq CallsWith("p")
  /\ relationships["p"] = <<"b", "a">>

\* C8, as claimed: once a root's enumeration has failed and nothing of the
\* cold build is left to run, compile() has taken its catch branch (lines
\* 97-102, "fatal") and the exit code is 1.
C8_EnumFailureIsFatal ==
  (/\ \E r \in Roots : stream[r] = "error"
   /\ \A r \in Roots : stream[r] # "flowing"
   /\ pending = {})
  => (pc = "fatal" /\ exitCode = 1)

\* C9: every unit the cold build compiled successfully is reported and, when
\* the table is kept and the unit's dataListener call is not suspended, listed
\* under each of its included files, whichever other units failed; and with
\* unit failures alone the run neither crashes nor ends with another exit
\* code than 2.
C9_UnitFailureIsolated ==
  /\ \A u \in Units :
       unit[u] = "ok" =>
         /\ u \in reported
         /\ (Tracking /\ lastBy[u] = "cold" /\ ~Suspended(u)) =>
              \A f \in Range(included[u]) : Listed(u, f)
  /\ (errors # <<>> /\ \A r \in Roots : stream[r] # "error") =>
       /\ pc \in {"build", "done"}
       /\ pc = "done" => exitCode = 2

\* a failed first, b compiled after it in the same stream and is listed under
\* the partial; the run has ended with exit code 2
C9_Witness ==
  /\ errors = <<"a">>
  /\ unit["b"] = "ok"
  /\ Tracking
  /\ Listed("b", "p")
  /\ pc = "done"
  /\ exitCode = 2

\* C10: an invocation with dependents left goes on to the next one when the
\* awaited compile settles, failed or not (a failure being logged), and a step
\* of an invocation changes neither the watchers nor compile()'s position.
C10_FailureDoesNotStopHandler ==
  [][\A i \in 1..Len(handlers) :
       LET h == handlers[i]
       IN  /\ handlers' # handlers => (watcher' = watcher /\ pc' = pc)
           /\ Len(h.invoked) < Len(h.deps) =>
                \E j \in 1..Len(handlers') :
                  \/ handlers'[j] = h
                  \/ /\ handlers'[j].invoked = Append(h.invoked, h.deps[Len(h.invoked) + 1])
                     /\ handlers'[j].errs \in {h.errs, Append(h.errs, InFlight(h))}
                     /\ handlers'[j].state = "compiling"
                     /\ <<handlers'[j].root, handlers'[j].path, handlers'[j].deps>>
                          = <<h.root, h.path, h.deps>>]_vars

\* the compile of the first dependent failed and was logged, the second is
\* being compiled, and the watcher is still open
C10_Witness ==
  \E i \in 1..Len(handlers) :
    /\ handlers[i].errs = <<"a">>
    /\ handlers[i].invoked = <<"a", "b">>
    /\ watcher[handlers[i].root] = "open"

\* the cold build can take no further step although a root's enumeration failed
Hung ==
  /\ pc = "build"
  /\ \E r \in Roots : stream[r] = "error"
  /\ \A r \in Roots : stream[r] # "flowing"
  /\ pending = {}
\* compile() has returned, the process has died, or nothing is left to run
Finished == pc \in {"done", "shutdown", "crashed"} \/ Hung

Effects == <<handlers, relationships, included, lastBy, recorded, errors, pending>>

\* C12: a change event for a file no successful compile has ever reported as
\* included starts no recompile, logs no error and leaves the table as it is.
C12_UnknownFileChangeInert ==
  [][(/\ lastEvent' # lastEvent
      /\ lastEvent'.kind = "change"
      /\ lastEvent'.path \notin everIncluded)
     => UNCHANGED Effects]_vars

\* the partial was never included, its change has been logged, nothing runs
C12_Witness ==
  /\ lastEvent = [kind |-> "change", path |-> "p"]
  /\ "p" \notin everIncluded
  /\ relationships # <<>>
  /\ handlers = <<>>

\* C13: an unlink event starts no recompile and leaves the table as it is,
\* whatever the table lists for the removed file.
C13_RemovalInert ==
  [][(lastEvent' # lastEvent /\ lastEvent'.kind = "unlink")
     => UNCHANGED Effects]_vars

\* the removal of the partial both units depend on has been logged, nothing
\* runs
C13_Witness ==
  /\ lastEvent = [kind |-> "unlink", path |-> "p"]
  /\ Len(dependentsOf(relationships, "p")) = 2
  /\ handlers = <<>>

\* C19, as claimed: the unit a change-handler invocation recompiles lives
\* under the root whose EntryConfig the invocation passes to compileFile.
C19_RecompiledWithOwnEntry ==
  \A i \in 1..Len(handlers) : RootOf(InFlight(handlers[i])) = handlers[i].root

\* the arguments of the cold build's dataListener calls: one per unit compiled
\* successfully, suspended or already through relationTracker
ColdCalls == pending \cup Range(recorded)
IsPrefix(s, t) == Len(s) <= Len(t) /\ s = SubSeq(t, 1, Len(s))

\* C14, as claimed: while a watch subscription exists, every unit the cold
\* build compiled successfully is listed under each of its included files.
C14_TablePopulatedBeforeWatch ==
  (\E r \in Roots : watcher[r] # "none") =>
    \A d \in ColdCalls : \A f \in Range(d.includedFiles) : Listed(d.from, f)

\* C15: an invocation has called compileFile for a prefix of its dependents,
\* in the table's order, and exactly one of these calls has not settled.
C15_DependentsOneAfterAnother ==
  \A i \in 1..Len(handlers) :
    /\ IsPrefix(handlers[i].invoked, handlers[i].deps)
    /\ Len(handlers[i].invoked) = handlers[i].settled + 1

\* the compile of b has settled without error and that of a, second in the
\* list, is running
C15_Witness ==
  \E i \in 1..Len(handlers) :
    /\ handlers[i].deps = <<"b", "a">>
    /\ handlers[i].invoked = <<"b", "a">>
    /\ handlers[i].settled = 1
    /\ handlers[i].errs = <<>>

\* C16: no step removes a key of the table, and a list of the table is left
\* as it is or gets one unit appended at its end.
C16_TableAdditiveOnly ==
  [][\A f \in DOMAIN relationships :
       /\ f \in DOMAIN relationships'
       /\ \/ relationships'[f] = relationships[f]
          \/ \E u \in Units : relationships'[f] = Append(relationships[f], u)]_vars

\* a was listed under the partial first and b appended after it
C16_Witness ==
  /\ recorded # <<>>
  /\ "p" \in DOMAIN relationships
  /\ relationships["p"] = <<"a", "b">>

\* C17: a SIGINT leaves no watcher open; graceful shutdown is reported only
\* with every root's watcher closed and sets exit code 0; and once the
\* watchers are closing, with every close() resolving, graceful shutdown is
\* reached.
C17_ShutdownCompletes ==
  /\ [][(\E r \in Roots : watcher[r] = "open" /\ watcher'[r] = "closing")
        => \A r \in Roots : watcher'[r] # "open"]_vars
  /\ [](pc = "shutdown" => (exitCode = 0 /\ \A r \in Roots : watcher[r] = "closed"))
  /\ ((\E r \in Roots : watcher[r] = "closing") ~> (pc = "shutdown"))

\* graceful shutdown has been reported
C17_Witness ==
  /\ pc = "shutdown"
  /\ exitCode = 0
  /\ \A r \in Roots : watcher[r] = "closed"

\* C18, as claimed: the table written to relationships.json lists every unit
\* the cold build compiled successfully under each of its included files.
C18_SnapshotIsFullTable ==
  snapshot # <<>> =>
    \A d \in ColdCalls : \A f \in Range(d.includedFiles) :
      d.from \in Range(dependentsOf(snapshot[1], f))

\* C20: a watch subscription exists only with the watch flag set, every
\* root's stream ended and an empty error collector; with a unit error
\* collected there is no subscription, no change event and no recompile.
C20_WatchOnlyAfterCleanBuild ==
  /\ (\E r \in Roots : watcher[r] # "none") =>
       /\ params.watch
       /\ errors = <<>>
       /\ \A r \in Roots : stream[r] = "ended"
  /\ errors # <<>> =>
       /\ \A r \in Roots : watcher[r] = "none"
       /\ pc \notin {"import", "watch", "shutdown"}
       /\ handlers = <<>>
       /\ lastEvent.kind = "none"

\* the watch flag is set, a unit failed, and the run has ended with exit code
\* 2 and no watcher
C20_Witness ==
  /\ params.watch
  /\ errors # <<>>
  /\ pc = "done"
  /\ exitCode = 2
  /\ \A r \in Roots : watcher[r] = "none"

====
